---- MODULE Spec2Model ----
(***************************************************************************)
(* A model of cortex/stack_manager.py (one StackManager, the catalog file  *)
(* stacks.json it reads, and the hardware probe it calls) and of the       *)
(* progress displays and formatters of cortex/output_formatter.py and      *)
(* cortex/branding.py.  Each component has its own variables and its own   *)
(* specification; a specification leaves the other components' variables   *)
(* at their initial values.                                                *)
(*                                                                         *)
(* Python and JSON values are tagged records, so that values of different  *)
(* types can be compared:                                                  *)
(*   None                     Python None, which is also what json.load    *)
(*                            returns for the JSON document null           *)
(*   [t |-> "dict", v |-> r]  a dict; r is a record, DOMAIN r its keys     *)
(*   [t |-> "list", v |-> s]  a list; s is a sequence                      *)
(*   [t |-> "str",  v |-> x]  a string                                     *)
(* The outcome of a call is Return(value) or Raise(exception name).        *)
(***************************************************************************)
EXTENDS Integers, Sequences, FiniteSets, TLC

VARIABLES
    file,       \* the content of self.stacks_file on disk
    _stacks,    \* StackManager._stacks, the cached catalog (None: nothing cached)
    call,       \* the last event: [op, arg], a method call or a change of the file
    result,     \* what that call returned or raised
    opened,     \* TRUE iff that call opened the catalog file
    probed,     \* the probe's outcome in that call, "not_queried" if it was not called
    first,      \* what the first load_stacks call that did not raise returned
    \* MultiStepProgress
    steps,        \* self.steps, the constructor's list
    step_status,  \* self.step_status, a dict from step to status
    _live,        \* self._live: None, or the Live display, started or stopped,
                  \* with the panel it shows
    ms_printed,   \* the panel __exit__ printed to the console, None before
    ms_call,      \* the last call on the MultiStepProgress: [op, step]
    \* spinner_context
    sp_pc,        \* "idle", "body" (inside the with block) or "exited"
    sp_args,      \* [success_message, error_message] of the current with block
    sp_spinning,  \* TRUE while console.status shows the spinner
    sp_console,   \* the lines console.print has printed, oldest first
    sp_mark,      \* Len(sp_console) when the current with block was entered
    sp_body,      \* how the body of the with block ended
    sp_outcome,   \* how the with statement ended for its caller
    \* the formatters: format_duration, format_bytes, cx_package_table
    fn,           \* the formatter the input is for
    fn_in,        \* its argument
    fn_out,       \* what it returned or rendered, None before the call
    \* ProgressTracker
    description,  \* self.description
    total,        \* self.total
    _progress,    \* self._progress: None, or the rich Progress with its tasks
    _task_id,     \* self._task_id: None, or the TaskID add_task returned
    pt_call,      \* the last call on the tracker: [op, arg]
    pt_result,    \* what that call returned or raised
    \* concurrent callers of load_stacks on the one StackManager
    th_pc,        \* each thread's position in load_stacks
    th_loaded,    \* each thread's json.load(f) value, before it is stored
    th_result,    \* what each thread's last load_stacks call returned or raised
    th_late,      \* TRUE iff the thread's current or last call started after a
                  \* first load had returned
    reads,        \* how many times a catalog has been read from the file
                  \* (json.load returned)
    \* format_dependency_tree
    package,      \* the root package
    dependencies, \* the dependencies mapping
    tree,         \* the Tree built so far: its nodes
    dt_stack      \* the add_deps calls in progress, the innermost last

stack_vars == <<file, _stacks, call, result, opened, probed, first>>
msp_vars == <<steps, step_status, _live, ms_printed, ms_call>>
sp_vars == <<sp_pc, sp_args, sp_spinning, sp_console, sp_mark, sp_body, sp_outcome>>

fmt_vars == <<fn, fn_in, fn_out>>
pt_vars == <<description, total, _progress, _task_id, pt_call, pt_result>>
th_vars == <<th_pc, th_loaded, th_result, th_late, reads>>

dt_vars == <<package, dependencies, tree, dt_stack>>

vars == <<stack_vars, msp_vars, sp_vars, fmt_vars, pt_vars, th_vars, dt_vars>>

(***************************************************************************)
(* Bounds.                                                                 *)
(***************************************************************************)
\* The longest "stacks" sequence of a catalog document.
MaxStacks == 2
\* The longest list of steps given to MultiStepProgress.
MaxSteps == 2
\* No with spinner_context(...) block is entered once the console holds this
\* many printed lines.
MaxConsole == 2
\* The number of threads calling load_stacks on the one StackManager.
NumThreads == 2
Threads == 1..NumThreads

(***************************************************************************)
(* Values and outcomes.                                                    *)
(***************************************************************************)
None == [t |-> "None"]
JDict(r) == [t |-> "dict", v |-> r]
JList(s) == [t |-> "list", v |-> s]
JStr(x) == [t |-> "str", v |-> x]

Return(v) == [kind |-> "return", value |-> v]
Raise(e) == [kind |-> "raise", exc |-> e]

\* first before any load_stacks call has returned
Unset == [t |-> "unset"]

(***************************************************************************)
(* The catalog file.  Stack entries are dicts; every key of an entry is    *)
(* optional in JSON, and the entries below differ in the keys they have.   *)
(***************************************************************************)
StackPool ==
    { [id |-> "ml", name |-> "ML Stack", description |-> "d",
       packages |-> <<"torch", "numpy">>, hardware |-> "nvidia"],
      [id |-> "ml-cpu", name |-> "ML Stack (CPU)", description |-> "d",
       packages |-> <<"numpy">>, tags |-> <<"cpu">>],
      [id |-> "webdev", name |-> "Web Development", description |-> "w",
       packages |-> <<"nginx", "nodejs">>, tags |-> <<"web", "js">>,
       hardware |-> "any"],
      [id |-> "ml", name |-> "ML Stack (old)", description |-> "o",
       tags |-> <<>>],
      [name |-> "No Id", description |-> "n", packages |-> <<"vim">>] }

RECURSIVE SeqsUpTo(_, _)
SeqsUpTo(S, n) ==
    IF n = 0 THEN {<<>>}
    ELSE LET shorter == SeqsUpTo(S, n - 1)
         IN  shorter \cup {Append(s, x) : s \in shorter, x \in S}

StackLists == SeqsUpTo(StackPool, MaxStacks)

\* The documents json.load parses without error.
Documents ==
    {None, JList(<<>>), JStr("stacks"), JDict(<<>>), JDict([version |-> "1"]),
     JDict([stacks |-> None])}
    \cup {JDict([stacks |-> JList(s)]) : s \in StackLists}

Absent == [t |-> "absent"]
InvalidJSON == [t |-> "invalid"]
Present(doc) == [t |-> "json", doc |-> doc]

Files == {Absent, InvalidJSON} \cup {Present(d) : d \in Documents}

\* What the file is changed to while the manager lives: deleted, damaged,
\* or replaced by another document.
Replacements ==
    {Absent, InvalidJSON, Present(None), Present(JList(<<>>)), Present(JDict(<<>>)),
     Present(JDict([stacks |-> JList(<<>>)])),
     Present(JDict([stacks |-> JList(<<[id |-> "webdev", name |-> "Web Development",
                                      description |-> "w",
                                      packages |-> <<"nginx", "nodejs">>,
                                      tags |-> <<"web", "js">>,
                                      hardware |-> "any"]>>)]))}

\* The ids callers ask for.
StackIds == {"ml", "ML", "ml-cpu", "webdev", "nonexistent", ""}

(***************************************************************************)
(* The hardware probe, cortex.hardware_detection.has_nvidia_gpu.           *)
(***************************************************************************)
ProbeOutcomes == {"gpu", "no_gpu", "fails"}

has_nvidia_gpu(p) ==
    CASE p = "gpu" -> Return(TRUE)
      [] p = "no_gpu" -> Return(FALSE)
      [] p = "fails" -> Raise("ProbeError")

(***************************************************************************)
(* StackManager's methods.  Each is an operator of the state it reads      *)
(* (c: self._stacks, f: the file) giving res, the call's outcome; cache,   *)
(* self._stacks afterwards; and opened, whether the file was opened.       *)
(***************************************************************************)
\* open(self.stacks_file) and json.load(f)
json_load(f) ==
    CASE f = Absent -> Raise("FileNotFoundError")
      [] f = InvalidJSON -> Raise("JSONDecodeError")
      [] OTHER -> Return(f.doc)

\* A faulty load_stacks: it caches an empty catalog when the file is missing.
load_stacks_caches_on_missing(c, f) ==
    IF c # None
    THEN [res |-> Return(c), cache |-> c, opened |-> FALSE]
    ELSE LET parsed == json_load(f)
         IN  CASE parsed.kind = "return" ->
                    [res |-> Return(parsed.value), cache |-> parsed.value,
                     opened |-> TRUE]
               [] parsed.kind = "raise" /\ parsed.exc = "FileNotFoundError" ->
                    [res |-> Raise("FileNotFoundError"), cache |-> JDict(<<>>),
                     opened |-> TRUE]
               [] parsed.kind = "raise" /\ parsed.exc = "JSONDecodeError" ->
                    [res |-> Raise("ValueError"), cache |-> c, opened |-> TRUE]

\* A faulty load_stacks: it reads the file on every call.
load_stacks_rereads(c, f) ==
    LET parsed == json_load(f)
    IN  CASE parsed.kind = "return" ->
               [res |-> Return(parsed.value), cache |-> parsed.value,
                opened |-> TRUE]
          [] parsed.kind = "raise" /\ parsed.exc = "FileNotFoundError" ->
               [res |-> Raise("FileNotFoundError"), cache |-> c, opened |-> TRUE]
          [] parsed.kind = "raise" /\ parsed.exc = "JSONDecodeError" ->
               [res |-> Raise("ValueError"), cache |-> c, opened |-> TRUE]

load_stacks(c, f) ==
    IF c # None
    THEN [res |-> Return(c), cache |-> c, opened |-> FALSE]
    ELSE LET parsed == json_load(f)
         IN  CASE parsed.kind = "return" ->
                    [res |-> Return(parsed.value), cache |-> parsed.value,
                     opened |-> TRUE]
               [] parsed.kind = "raise" /\ parsed.exc = "FileNotFoundError" ->
                    [res |-> Raise("FileNotFoundError"), cache |-> c,
                     opened |-> TRUE]
               [] parsed.kind = "raise" /\ parsed.exc = "JSONDecodeError" ->
                    [res |-> Raise("ValueError"), cache |-> c, opened |-> TRUE]

\* A faulty lookup: stacks.get("stacks"), without the default.
dict_get_stacks_no_default(stacks) ==
    IF stacks.t # "dict" THEN Raise("AttributeError")
    ELSE IF "stacks" \in DOMAIN stacks.v THEN Return(stacks.v.stacks)
    ELSE Return(None)

\* stacks.get("stacks", [])
dict_get_stacks(stacks) ==
    IF stacks.t # "dict" THEN Raise("AttributeError")
    ELSE IF "stacks" \in DOMAIN stacks.v THEN Return(stacks.v.stacks)
    ELSE Return(JList(<<>>))

\* A faulty list_stacks: a failed load gives the empty list.
list_stacks_swallow(c, f) ==
    LET loaded == load_stacks(c, f)
    IN  IF loaded.res.kind = "raise"
        THEN [loaded EXCEPT !.res = Return(JList(<<>>))]
        ELSE [loaded EXCEPT !.res = dict_get_stacks(loaded.res.value)]

list_stacks(c, f) ==
    LET loaded == load_stacks(c, f)
    IN  IF loaded.res.kind = "raise" THEN loaded
        ELSE [loaded EXCEPT !.res = dict_get_stacks(loaded.res.value)]

\* str.lower() on the ids of the model
Lower(x) == IF x = "ML" THEN "ml" ELSE x

\* A faulty scan: it compares the ids without regard to case.
RECURSIVE scan_stacks_casefold(_, _)
scan_stacks_casefold(s, stack_id) ==
    IF s = <<>> THEN Return(None)
    ELSE IF "id" \notin DOMAIN Head(s) THEN Raise("KeyError")
    ELSE IF Lower(Head(s).id) = Lower(stack_id) THEN Return(JDict(Head(s)))
    ELSE scan_stacks_casefold(Tail(s), stack_id)

\* A faulty scan: it goes on to the last stack with the id.
RECURSIVE scan_stacks_last(_, _)
scan_stacks_last(s, stack_id) ==
    IF s = <<>> THEN Return(None)
    ELSE IF "id" \notin DOMAIN Head(s) THEN Raise("KeyError")
    ELSE LET later == scan_stacks_last(Tail(s), stack_id)
         IN  IF later # Return(None) THEN later
             ELSE IF Head(s).id = stack_id THEN Return(JDict(Head(s)))
             ELSE Return(None)

\* for stack in stacks: if stack["id"] == stack_id: return stack
RECURSIVE scan_stacks(_, _)
scan_stacks(s, stack_id) ==
    IF s = <<>> THEN Return(None)
    ELSE IF "id" \notin DOMAIN Head(s) THEN Raise("KeyError")
    ELSE IF Head(s).id = stack_id THEN Return(JDict(Head(s)))
    ELSE scan_stacks(Tail(s), stack_id)

find_stack(c, f, stack_id) ==
    LET listed == list_stacks(c, f)
    IN  IF listed.res.kind = "raise" THEN listed
        ELSE IF listed.res.value.t # "list"
        THEN [listed EXCEPT !.res = Raise("TypeError")]
        ELSE [listed EXCEPT !.res = scan_stacks(listed.res.value.v, stack_id)]

\* not stack
is_falsy(stack) == stack = None \/ (stack.t = "dict" /\ DOMAIN stack.v = {})

\* A faulty get_stack_packages: it leaves out the "if not stack" guard.
get_stack_packages_no_guard(c, f, stack_id) ==
    LET found == find_stack(c, f, stack_id)
    IN  IF found.res.kind = "raise" THEN found
        ELSE IF found.res.value.t # "dict"
        THEN [found EXCEPT !.res = Raise("AttributeError")]
        ELSE LET stack == found.res.value.v
             IN  [found EXCEPT !.res =
                    Return(JList(IF "packages" \in DOMAIN stack
                                 THEN stack.packages ELSE <<>>))]

get_stack_packages(c, f, stack_id) ==
    LET found == find_stack(c, f, stack_id)
    IN  IF found.res.kind = "raise" THEN found
        ELSE IF is_falsy(found.res.value)
        THEN [found EXCEPT !.res = Return(JList(<<>>))]
        ELSE LET stack == found.res.value.v
             IN  [found EXCEPT !.res =
                    Return(JList(IF "packages" \in DOMAIN stack
                                 THEN stack.packages ELSE <<>>))]

\* A faulty suggest_stack: it takes "ML" for the ML stack too.
suggest_stack_casefold(base_stack, p) ==
    IF Lower(base_stack) = "ml"
    THEN LET gpu == has_nvidia_gpu(p)
         IN  [res |-> IF gpu.kind = "raise" THEN gpu
                      ELSE IF gpu.value THEN Return(JStr("ml"))
                      ELSE Return(JStr("ml-cpu")),
              probed |-> p]
    ELSE [res |-> Return(JStr(base_stack)), probed |-> "not_queried"]

\* p: what the probe does if it is called
suggest_stack(base_stack, p) ==
    IF base_stack = "ml"
    THEN LET gpu == has_nvidia_gpu(p)
         IN  [res |-> IF gpu.kind = "raise" THEN gpu
                      ELSE IF gpu.value THEN Return(JStr("ml"))
                      ELSE Return(JStr("ml-cpu")),
              probed |-> p]
    ELSE [res |-> Return(JStr(base_stack)), probed |-> "not_queried"]

\* A faulty numbering: enumerate(packages), which counts from 0.
package_lines_from_zero(packages) ==
    [i \in 1..Len(packages) |->
        [line |-> "package", idx |-> i - 1, pkg |-> packages[i]]]

\* The text describe_stack builds, as the sequence of its lines.
package_lines(packages) ==
    [i \in 1..Len(packages) |-> [line |-> "package", idx |-> i, pkg |-> packages[i]]]

\* A faulty description: it has a tags line whether or not there are tags.
description_of_always_tags(stack) ==
    <<[line |-> "stack", name |-> stack.name],
      [line |-> "description", text |-> stack.description],
      [line |-> "packages included"]>>
    \o package_lines(IF "packages" \in DOMAIN stack THEN stack.packages ELSE <<>>)
    \o <<[line |-> "tags",
          tags |-> IF "tags" \in DOMAIN stack THEN stack.tags ELSE <<>>]>>
    \o <<[line |-> "hardware",
          hardware |-> IF "hardware" \in DOMAIN stack THEN stack.hardware ELSE "any"]>>

description_of(stack) ==
    <<[line |-> "stack", name |-> stack.name],
      [line |-> "description", text |-> stack.description],
      [line |-> "packages included"]>>
    \o package_lines(IF "packages" \in DOMAIN stack THEN stack.packages ELSE <<>>)
    \o (IF "tags" \in DOMAIN stack /\ stack.tags # <<>>
        THEN <<[line |-> "tags", tags |-> stack.tags]>> ELSE <<>>)
    \o <<[line |-> "hardware",
          hardware |-> IF "hardware" \in DOMAIN stack THEN stack.hardware ELSE "any"]>>

describe_stack(c, f, stack_id) ==
    LET found == find_stack(c, f, stack_id)
    IN  IF found.res.kind = "raise" THEN found
        ELSE IF is_falsy(found.res.value)
        THEN [found EXCEPT !.res =
                Return(JStr(<<[line |-> "not found", id |-> stack_id]>>))]
        ELSE LET stack == found.res.value.v
             IN  IF "name" \notin DOMAIN stack \/ "description" \notin DOMAIN stack
                 THEN [found EXCEPT !.res = Raise("KeyError")]
                 ELSE [found EXCEPT !.res = Return(JStr(description_of(stack)))]

(***************************************************************************)
(* The components as they are while another component's specification      *)
(* runs: not constructed, never called.                                    *)
(***************************************************************************)
StackIdle ==
    /\ file = Absent
    /\ _stacks = None
    /\ call = [op |-> "__init__", arg |-> ""]
    /\ result = Return(None)
    /\ opened = FALSE
    /\ probed = "not_queried"
    /\ first = Unset

MspIdle ==
    /\ steps = <<>>
    /\ step_status = <<>>
    /\ _live = None
    /\ ms_printed = None
    /\ ms_call = [op |-> "none", step |-> ""]

SpinnerIdle ==
    /\ sp_pc = "idle"
    /\ sp_args = [success_message |-> None, error_message |-> None]
    /\ sp_spinning = FALSE
    /\ sp_console = <<>>
    /\ sp_mark = 0
    /\ sp_body = Return(None)
    /\ sp_outcome = Return(None)

FmtIdle ==
    /\ fn = "none"
    /\ fn_in = None
    /\ fn_out = None

TrackerIdle ==
    /\ description = ""
    /\ total = None
    /\ _progress = None
    /\ _task_id = None
    /\ pt_call = [op |-> "none", arg |-> None]
    /\ pt_result = Return(None)

ThreadsIdle ==
    /\ th_pc = [t \in Threads |-> "idle"]
    /\ th_loaded = [t \in Threads |-> Unset]
    /\ th_result = [t \in Threads |-> Unset]
    /\ th_late = [t \in Threads |-> FALSE]
    /\ reads = 0

TreeIdle ==
    /\ package = ""
    /\ dependencies = <<>>
    /\ tree = {}
    /\ dt_stack = <<>>

(***************************************************************************)
(* The state machine: a caller invokes the methods in any order, and the   *)
(* file changes under the manager.                                         *)
(***************************************************************************)
Init ==
    /\ MspIdle
    /\ SpinnerIdle
    /\ FmtIdle
    /\ TrackerIdle
    /\ ThreadsIdle
    /\ TreeIdle
    /\ file \in Files
    /\ _stacks = None
    /\ call = [op |-> "__init__", arg |-> ""]
    /\ result = Return(None)
    /\ opened = FALSE
    /\ probed = "not_queried"
    /\ first = Unset

\* A method that goes through load_stacks ran with outcome out, and the load
\* in it had outcome loaded.
Ran(op, arg, out, loaded) ==
    /\ call' = [op |-> op, arg |-> arg]
    /\ result' = out.res
    /\ _stacks' = out.cache
    /\ opened' = out.opened
    /\ probed' = "not_queried"
    /\ first' = IF first = Unset /\ loaded.res.kind = "return"
                THEN loaded.res.value ELSE first
    /\ UNCHANGED <<file, msp_vars, sp_vars, fmt_vars, pt_vars, th_vars, dt_vars>>

LoadStacks == Ran("load_stacks", "", load_stacks(_stacks, file), load_stacks(_stacks, file))

ListStacks == Ran("list_stacks", "", list_stacks(_stacks, file), load_stacks(_stacks, file))

FindStack ==
    \E id \in StackIds :
        Ran("find_stack", id, find_stack(_stacks, file, id), load_stacks(_stacks, file))

GetStackPackages ==
    \E id \in StackIds :
        Ran("get_stack_packages", id, get_stack_packages(_stacks, file, id),
            load_stacks(_stacks, file))

DescribeStack ==
    \E id \in StackIds :
        Ran("describe_stack", id, describe_stack(_stacks, file, id),
            load_stacks(_stacks, file))

SuggestStack ==
    \E base \in StackIds, p \in ProbeOutcomes :
        LET out == suggest_stack(base, p)
        IN  /\ call' = [op |-> "suggest_stack", arg |-> base]
            /\ result' = out.res
            /\ probed' = out.probed
            /\ opened' = FALSE
            /\ UNCHANGED <<file, _stacks, first, msp_vars, sp_vars, fmt_vars, pt_vars, th_vars, dt_vars>>

\* Something outside the manager replaces, deletes or damages the file.
ChangeFile ==
    /\ file' \in Replacements \ {file}
    /\ call' = [op |-> "change_file", arg |-> ""]
    /\ result' = Return(None)
    /\ opened' = FALSE
    /\ probed' = "not_queried"
    /\ UNCHANGED <<_stacks, first, msp_vars, sp_vars, fmt_vars, pt_vars, th_vars, dt_vars>>

Next ==
    \/ LoadStacks
    \/ ListStacks
    \/ FindStack
    \/ GetStackPackages
    \/ DescribeStack
    \/ SuggestStack
    \/ ChangeFile

Spec == Init /\ [][Next]_vars

(***************************************************************************)
(* MultiStepProgress (cortex/output_formatter.py).                         *)
(***************************************************************************)
\* The steps a progress is built from, and a name no progress has.
StepNames == {"Downloading", "Installing"}
CalledSteps == StepNames \cup {"Cleanup"}

StepLists == SeqsUpTo(StepNames, MaxSteps)

Statuses == {"pending", "running", "completed", "failed", "skipped"}

\* {step: "pending" for step in steps}
new_step_status(the_steps) ==
    [s \in {the_steps[i] : i \in 1..Len(the_steps)} |-> "pending"]

\* _render: one line per step of self.steps, with the icon and style of its status
_render(the_steps, status) ==
    [i \in 1..Len(the_steps) |->
        LET st == status[the_steps[i]]
        IN  [step |-> the_steps[i],
             icon |-> CASE st = "pending" -> "pending"
                        [] st = "running" -> "running"
                        [] st = "completed" -> "success"
                        [] st = "failed" -> "error"
                        [] OTHER -> "skipped",
             style |-> CASE st = "pending" -> "dim"
                         [] st = "running" -> "cyan"
                         [] st = "completed" -> "green"
                         [] st = "failed" -> "red"
                         [] OTHER -> "dim"]]

\* A faulty start_step: it leaves out the "if step in self.step_status" guard.
start_step_no_guard(status, step) ==
    [s \in DOMAIN status \cup {step} |-> IF s = step THEN "running" ELSE status[s]]

start_step(status, step) ==
    IF step \in DOMAIN status THEN [status EXCEPT ![step] = "running"] ELSE status

complete_step(status, step) ==
    IF step \in DOMAIN status THEN [status EXCEPT ![step] = "completed"] ELSE status

\* A faulty fail_step: it marks the step completed.
fail_step_completes(status, step) ==
    IF step \in DOMAIN status THEN [status EXCEPT ![step] = "completed"] ELSE status

fail_step(status, step) ==
    IF step \in DOMAIN status THEN [status EXCEPT ![step] = "failed"] ELSE status

\* A faulty skip_step: it puts the step back to pending.
skip_step_resets(status, step) ==
    IF step \in DOMAIN status THEN [status EXCEPT ![step] = "pending"] ELSE status

skip_step(status, step) ==
    IF step \in DOMAIN status THEN [status EXCEPT ![step] = "skipped"] ELSE status

MspInit ==
    /\ steps \in StepLists
    /\ step_status = new_step_status(steps)
    /\ _live = None
    /\ ms_printed = None
    /\ ms_call = [op |-> "__init__", step |-> ""]
    /\ StackIdle
    /\ SpinnerIdle
    /\ FmtIdle
    /\ TrackerIdle
    /\ ThreadsIdle
    /\ TreeIdle

\* with progress: ...  entered once: a Live is made of the current panel and
\* started.
MspEnter ==
    /\ _live = None
    /\ _live' = [started |-> TRUE, renderable |-> _render(steps, step_status)]
    /\ ms_call' = [op |-> "__enter__", step |-> ""]
    /\ UNCHANGED <<steps, step_status, ms_printed, stack_vars, sp_vars, fmt_vars, pt_vars, th_vars, dt_vars>>

MspExit ==
    /\ IF _live # None
       THEN /\ _live' = [_live EXCEPT !.started = FALSE]
            /\ ms_printed' = _render(steps, step_status)
       ELSE UNCHANGED <<_live, ms_printed>>
    /\ ms_call' = [op |-> "__exit__", step |-> ""]
    /\ UNCHANGED <<steps, step_status, stack_vars, sp_vars, fmt_vars, pt_vars, th_vars, dt_vars>>

\* One of the four step methods ran on step and left the statuses as new.
StepCall(op, step, new) ==
    /\ step_status' = new
    /\ _live' = IF step \in DOMAIN step_status /\ _live # None
                THEN [_live EXCEPT !.renderable = _render(steps, new)]
                ELSE _live
    /\ ms_call' = [op |-> op, step |-> step]
    /\ UNCHANGED <<steps, ms_printed, stack_vars, sp_vars, fmt_vars, pt_vars, th_vars, dt_vars>>

StartStep == \E step \in CalledSteps : StepCall("start_step", step, start_step(step_status, step))

CompleteStep ==
    \E step \in CalledSteps : StepCall("complete_step", step, complete_step(step_status, step))

FailStep == \E step \in CalledSteps : StepCall("fail_step", step, fail_step(step_status, step))

SkipStep == \E step \in CalledSteps : StepCall("skip_step", step, skip_step(step_status, step))

MspNext ==
    \/ MspEnter
    \/ MspExit
    \/ StartStep
    \/ CompleteStep
    \/ FailStep
    \/ SkipStep

SpecMsp == MspInit /\ [][MspNext]_vars

(***************************************************************************)
(* spinner_context (cortex/output_formatter.py), a @contextmanager.        *)
(***************************************************************************)
\* The messages a caller passes: None, the empty string, a text.
SuccessMessages == {None, JStr(""), JStr("Done!")}
ErrorMessages == {None, JStr(""), JStr("Failed")}

\* What the body of the with block raises.  ValueError and RuntimeError are
\* subclasses of Exception; KeyboardInterrupt and SystemExit are not.
BodyExceptions == {"ValueError", "RuntimeError", "KeyboardInterrupt", "SystemExit"}
ExceptionSubclasses == {"ValueError", "RuntimeError"}

\* if message:
is_truthy(message) == message # None /\ message # JStr("")

\* A faulty spinner_context: its except clause does not raise again.
spinner_context_swallows(args, body) ==
    IF body.kind = "return"
    THEN [printed |-> IF is_truthy(args.success_message)
                      THEN <<[icon |-> "success", style |-> "green",
                              text |-> args.success_message.v]>>
                      ELSE <<>>,
          out |-> Return(None)]
    ELSE IF body.exc \in ExceptionSubclasses
    THEN [printed |-> IF is_truthy(args.error_message)
                      THEN <<[icon |-> "error", style |-> "red",
                              text |-> args.error_message.v]>>
                      ELSE <<>>,
          out |-> Return(None)]
    ELSE [printed |-> <<>>, out |-> body]

\* The generator from the yield on: body is how the with block's body ended
\* (Return(None) or Raise(e)); printed, what console.print is given; out, what
\* the with statement does to its caller.
spinner_context(args, body) ==
    IF body.kind = "return"
    THEN [printed |-> IF is_truthy(args.success_message)
                      THEN <<[icon |-> "success", style |-> "green",
                              text |-> args.success_message.v]>>
                      ELSE <<>>,
          out |-> Return(None)]
    ELSE IF body.exc \in ExceptionSubclasses
    THEN [printed |-> IF is_truthy(args.error_message)
                      THEN <<[icon |-> "error", style |-> "red",
                              text |-> args.error_message.v]>>
                      ELSE <<>>,
          out |-> body]
    ELSE [printed |-> <<>>, out |-> body]

SpinnerInit ==
    /\ SpinnerIdle
    /\ StackIdle
    /\ MspIdle
    /\ FmtIdle
    /\ TrackerIdle
    /\ ThreadsIdle
    /\ TreeIdle

\* with spinner_context(message, success_message, error_message): up to the yield
SpinnerEnter ==
    /\ sp_pc \in {"idle", "exited"}
    /\ Len(sp_console) < MaxConsole
    /\ \E sm \in SuccessMessages, em \in ErrorMessages :
            sp_args' = [success_message |-> sm, error_message |-> em]
    /\ sp_pc' = "body"
    /\ sp_spinning' = TRUE
    /\ sp_mark' = Len(sp_console)
    /\ UNCHANGED <<sp_console, sp_body, sp_outcome, stack_vars, msp_vars, fmt_vars, pt_vars, th_vars, dt_vars>>

\* The body ended as body; the generator runs from the yield to its end and
\* console.status stops the spinner.
SpinnerLeave(body) ==
    /\ sp_pc = "body"
    /\ LET ended == spinner_context(sp_args, body)
       IN  /\ sp_console' = sp_console \o ended.printed
           /\ sp_outcome' = ended.out
    /\ sp_body' = body
    /\ sp_pc' = "exited"
    /\ sp_spinning' = FALSE
    /\ UNCHANGED <<sp_args, sp_mark, stack_vars, msp_vars, fmt_vars, pt_vars, th_vars, dt_vars>>

BodyReturns == SpinnerLeave(Return(None))

BodyRaises == \E e \in BodyExceptions : SpinnerLeave(Raise(e))

SpinnerNext ==
    \/ SpinnerEnter
    \/ BodyReturns
    \/ BodyRaises

SpecSpinner == SpinnerInit /\ [][SpinnerNext]_vars

(***************************************************************************)
(* The formatters.  A string the code inspects is a sequence of one-letter *)
(* strings, so that lower() and the "in" test are computed as Python does. *)
(***************************************************************************)
UpperCase == <<"A", "B", "C", "D", "E", "F", "G", "H", "I", "J", "K", "L", "M",
               "N", "O", "P", "Q", "R", "S", "T", "U", "V", "W", "X", "Y", "Z">>
LowerCase == <<"a", "b", "c", "d", "e", "f", "g", "h", "i", "j", "k", "l", "m",
               "n", "o", "p", "q", "r", "s", "t", "u", "v", "w", "x", "y", "z">>

\* str.lower()
lower(s) ==
    [i \in 1..Len(s) |->
        IF \E k \in 1..Len(UpperCase) : UpperCase[k] = s[i]
        THEN LowerCase[CHOOSE k \in 1..Len(UpperCase) : UpperCase[k] = s[i]]
        ELSE s[i]]

\* sub in s
Contains(sub, s) ==
    \E i \in 0..(Len(s) - Len(sub)) : SubSeq(s, i + 1, i + Len(sub)) = sub

w_install == <<"i", "n", "s", "t", "a", "l", "l">>
w_remove == <<"r", "e", "m", "o", "v", "e">>
w_uninstall == <<"u", "n">> \o w_install
w_update == <<"u", "p", "d", "a", "t", "e">>
w_upgrade == <<"u", "p", "g", "r", "a", "d", "e">>

\* The actions of the rows given to cx_package_table.
Actions ==
    { <<"I", "n", "s", "t", "a", "l", "l">>,
      w_install,
      <<"R", "e", "i", "n", "s", "t", "a", "l", "l">>,
      <<"R", "e", "m", "o", "v", "e">>,
      <<"R", "E", "M", "O", "V", "E", "D">>,
      <<"U", "n", "i", "n", "s", "t", "a", "l", "l">>,
      <<"U", "p", "d", "a", "t", "e">>,
      <<"U", "P", "G", "R", "A", "D", "E">>,
      <<"K", "e", "e", "p">>,
      <<>> }

\* The longest list of packages given to cx_package_table.
MaxRows == 2

PackageTuples == {[name |-> "pkg", version |-> "1.0", action |-> a] : a \in Actions}
PackageLists == SeqsUpTo(PackageTuples, MaxRows)

\* f"[green]{action}[/green]", and action itself when style is "none"
Markup(style, action) == [style |-> style, text |-> action]

\* the if / elif chain of the loop body
action_styled(action) ==
    IF Contains(w_install, lower(action)) THEN Markup("green", action)
    ELSE IF Contains(w_remove, lower(action)) \/ Contains(w_uninstall, lower(action))
         THEN Markup("red", action)
    ELSE IF Contains(w_update, lower(action)) \/ Contains(w_upgrade, lower(action))
         THEN Markup("yellow", action)
    ELSE Markup("none", action)

\* The table console.print is given: its Action column and one row per package.
cx_package_table(packages) ==
    [action_column_style |-> "green",
     rows |-> [i \in 1..Len(packages) |->
                 [name |-> packages[i].name,
                  version |-> packages[i].version,
                  action |-> action_styled(packages[i].action)]]]

(***************************************************************************)
(* format_duration.  Its argument is a number of tenths of a second, so    *)
(* that seconds = tenths / 10 exactly; the text it returns is the f-string *)
(* with the numbers it is filled with.                                     *)
(***************************************************************************)
\* The longest duration formatted, in seconds.
MaxSeconds == 7325

\* Whole and half seconds.
Durations == {10 * s + f : s \in 0..MaxSeconds, f \in {0, 5}}

\* f"{seconds:.1f}s": a number of tenths shows as its whole part and one digit
one_decimal(tenths) == <<tenths \div 10, tenths % 10>>

\* A faulty format_duration: the seconds shown are not reduced modulo 60.
format_duration_no_modulo(tenths) ==
    IF tenths < 600 THEN [form |-> "{}.{}s", args |-> one_decimal(tenths)]
    ELSE IF tenths < 36000
         THEN [form |-> "{}m {}s", args |-> <<tenths \div 600, tenths \div 10>>]
    ELSE [form |-> "{}h {}m", args |-> <<tenths \div 36000, (tenths % 36000) \div 600>>]

\* seconds // 60 is tenths \div 600, int(seconds % 60) is (tenths % 600) \div 10
format_duration(tenths) ==
    IF tenths < 600 THEN [form |-> "{}.{}s", args |-> one_decimal(tenths)]
    ELSE IF tenths < 36000
         THEN [form |-> "{}m {}s", args |-> <<tenths \div 600, (tenths % 600) \div 10>>]
    ELSE [form |-> "{}h {}m", args |-> <<tenths \div 36000, (tenths % 36000) \div 600>>]

(***************************************************************************)
(* format_bytes.  A byte count is written in base 1024, least significant  *)
(* digit first, so that counts up to the petabyte range stay within the    *)
(* integers of the checker.  The float num_bytes becomes after k divisions *)
(* by 1024.0 is the count with its point moved k digits: every count here  *)
(* is below 2^53, so the float holds that value exactly.                   *)
(***************************************************************************)
Units == <<"B", "KB", "MB", "GB", "TB">>

\* The base-1024 digits a byte count is made of, and those of its top digit.
Digits == {0, 1, 256, 512, 1023}
TopDigits == {0, 1}

ByteCounts ==
    {n \in [1..(Len(Units) + 1) -> Digits] : n[Len(Units) + 1] \in TopDigits}

\* abs(num_bytes) < 1024.0, for the count n with its point moved k digits
below_1024(n, k) == \A i \in (k + 2)..Len(n) : n[i] = 0

\* The whole part of that number: the digits from i = k + 1 up.
RECURSIVE whole_part(_, _)
whole_part(n, i) ==
    IF i > Len(n) THEN 0 ELSE n[i] + 1024 * whole_part(n, i + 1)

\* Ten times the fraction digits n[1..k]: the carry out of digit i, and the
\* digit left at i.
RECURSIVE carry_out(_, _)
carry_out(n, i) == IF i = 0 THEN 0 ELSE (10 * n[i] + carry_out(n, i - 1)) \div 1024
digit_left(n, i) == (10 * n[i] + carry_out(n, i - 1)) % 1024

\* How what is left of the fraction after its first decimal compares with
\* half a tenth.
past_half(n, k) ==
    IF k = 0 THEN "below"
    ELSE IF digit_left(n, k) > 512 THEN "above"
    ELSE IF digit_left(n, k) < 512 THEN "below"
    ELSE IF \E i \in 1..(k - 1) : digit_left(n, i) # 0 THEN "above"
    ELSE "tie"

\* f"{num_bytes:.1f}": the nearest tenth, a tie going to the even digit
one_decimal_of(n, k) ==
    LET down == 10 * whole_part(n, k + 1) + carry_out(n, k)
        tenths == IF past_half(n, k) = "above" THEN down + 1
                  ELSE IF past_half(n, k) = "tie" /\ down % 2 = 1 THEN down + 1
                  ELSE down
    IN  <<tenths \div 10, tenths % 10>>

\* The loop from its k-th unit on (k from 1).
RECURSIVE format_bytes_from(_, _)
format_bytes_from(n, k) ==
    IF k > Len(Units) THEN [number |-> one_decimal_of(n, Len(Units)), unit |-> "PB"]
    ELSE IF below_1024(n, k - 1)
         THEN [number |-> one_decimal_of(n, k - 1), unit |-> Units[k]]
    ELSE format_bytes_from(n, k + 1)

format_bytes(n) == format_bytes_from(n, 1)

Formatters == {"cx_package_table", "format_duration", "format_bytes"}

InputsOf(f) ==
    IF f = "cx_package_table" THEN PackageLists
    ELSE IF f = "format_duration" THEN Durations
    ELSE ByteCounts

FormatInit ==
    /\ StackIdle
    /\ MspIdle
    /\ SpinnerIdle
    /\ TrackerIdle
    /\ ThreadsIdle
    /\ TreeIdle
    /\ fn \in Formatters
    /\ fn_in \in InputsOf(fn)
    /\ fn_out = None

\* The formatter f is called with the input and returns out.
Formatted(f, out) ==
    /\ fn = f
    /\ fn_out = None
    /\ fn_out' = out
    /\ UNCHANGED <<fn, fn_in, stack_vars, msp_vars, sp_vars, pt_vars, th_vars, dt_vars>>

CxPackageTable == Formatted("cx_package_table", cx_package_table(fn_in))

FormatDuration == Formatted("format_duration", format_duration(fn_in))

FormatBytes == Formatted("format_bytes", format_bytes(fn_in))

FormatNext ==
    \/ CxPackageTable
    \/ FormatDuration
    \/ FormatBytes

SpecFormat == FormatInit /\ [][FormatNext]_vars

(***************************************************************************)
(* ProgressTracker.  The rich Progress it drives is a record: whether the  *)
(* display is started, whether it has the time-remaining column, and its   *)
(* tasks in the order add_task made them; the task with TaskID k is        *)
(* tasks[k + 1], since a Progress numbers its tasks from 0.                *)
(***************************************************************************)
JInt(n) == [t |-> "int", v |-> n]

\* No call advances the task once it has completed this much.
MaxCompleted == 3

TrackerDescriptions == {"", "Installing packages"}
TrackerTotals == {None, JInt(0), JInt(2)}
UpdateDescriptions == {None, JStr(""), JStr("Installing numpy")}
UpdateAdvances == {0, 1}
AdvanceAmounts == {1, 2}
NewTotals == {1, 3}

\* Progress.add_task on a Progress: the new Progress and the TaskID
add_task(progress, desc, tot) ==
    [progress |-> [progress EXCEPT !.tasks =
                      Append(@, [description |-> desc, total |-> tot, completed |-> 0])],
     task_id |-> JInt(Len(progress.tasks))]

\* Progress.update(task_id, description=..., advance=..., total=...); an
\* argument left out is None and leaves the field as it is.
progress_update(progress, task_id, desc, adv, tot) ==
    IF task_id.v + 1 \notin DOMAIN progress.tasks
    THEN [progress |-> progress, res |-> Raise("KeyError")]
    ELSE [progress |->
            [progress EXCEPT !.tasks[task_id.v + 1] =
                [description |-> IF desc = None THEN @.description ELSE desc.v,
                 total |-> IF tot = None THEN @.total ELSE tot,
                 completed |-> IF adv = None THEN @.completed ELSE @.completed + adv.v]],
          res |-> Return(None)]

\* A faulty guard: if self._progress and self._task_id
has_task_truthy_id(p, tid) == p # None /\ tid # None /\ tid # JInt(0)

\* if self._progress and self._task_id is not None
has_task(p, tid) == p # None /\ tid # None

\* description or self.description
description_or(desc, self_description) ==
    IF desc = None \/ desc = JStr("") THEN JStr(self_description) ELSE desc

\* ProgressTracker.update: the Progress afterwards and the outcome
update(p, tid, self_description, desc, adv) ==
    IF has_task(p, tid)
    THEN progress_update(p, tid, description_or(desc, self_description), JInt(adv), None)
    ELSE [progress |-> p, res |-> Return(None)]

\* ProgressTracker.advance; Progress.advance(task_id, amount) adds amount
advance(p, tid, amount) ==
    IF has_task(p, tid)
    THEN progress_update(p, tid, None, JInt(amount), None)
    ELSE [progress |-> p, res |-> Return(None)]

\* A faulty set_total: without a display it makes one, with a task of that total.
set_total_makes_display(p, tid, tot) ==
    IF has_task(p, tid)
    THEN progress_update(p, tid, None, None, JInt(tot))
    ELSE [progress |-> add_task([started |-> FALSE, time_remaining |-> TRUE,
                                 tasks |-> <<>>], "", JInt(tot)).progress,
          res |-> Return(None)]

\* ProgressTracker.set_total
set_total(p, tid, tot) ==
    IF has_task(p, tid)
    THEN progress_update(p, tid, None, None, JInt(tot))
    ELSE [progress |-> p, res |-> Return(None)]

\* ProgressTracker(description, total)
TrackerInit ==
    /\ StackIdle
    /\ MspIdle
    /\ SpinnerIdle
    /\ FmtIdle
    /\ ThreadsIdle
    /\ TreeIdle
    /\ description \in TrackerDescriptions
    /\ total \in TrackerTotals
    /\ _progress = None
    /\ _task_id = None
    /\ pt_call = [op |-> "__init__", arg |-> None]
    /\ pt_result = Return(None)

TrackerFrame == UNCHANGED <<description, total, stack_vars, msp_vars, sp_vars, fmt_vars, th_vars, dt_vars>>

\* __enter__: a new Progress, started, with the one task
TrackerEnter ==
    LET new == add_task([started |-> TRUE, time_remaining |-> total # None, tasks |-> <<>>],
                        description, total)
    IN  /\ _progress' = new.progress
        /\ _task_id' = new.task_id
        /\ pt_call' = [op |-> "__enter__", arg |-> None]
        /\ pt_result' = Return(None)
        /\ TrackerFrame

\* __exit__: stops the Progress if there is one; returns None, so an
\* exception of the body is not suppressed
TrackerExit ==
    /\ _progress' = IF _progress # None THEN [_progress EXCEPT !.started = FALSE]
                    ELSE _progress
    /\ pt_call' = [op |-> "__exit__", arg |-> None]
    /\ pt_result' = Return(None)
    /\ UNCHANGED _task_id
    /\ TrackerFrame

\* The task's completed count, 0 when there is no task.
Completed == IF has_task(_progress, _task_id)
             THEN _progress.tasks[_task_id.v + 1].completed ELSE 0

TrackerCall(op, arg, out) ==
    /\ _progress' = out.progress
    /\ pt_call' = [op |-> op, arg |-> arg]
    /\ pt_result' = out.res
    /\ UNCHANGED _task_id
    /\ TrackerFrame

TrackerUpdate ==
    \E desc \in UpdateDescriptions, adv \in UpdateAdvances :
        /\ Completed + adv <= MaxCompleted
        /\ TrackerCall("update", [description |-> desc, advance |-> adv],
                       update(_progress, _task_id, description, desc, adv))

TrackerAdvance ==
    \E amount \in AdvanceAmounts :
        /\ Completed + amount <= MaxCompleted
        /\ TrackerCall("advance", [amount |-> amount],
                       advance(_progress, _task_id, amount))

TrackerSetTotal ==
    \E tot \in NewTotals :
        TrackerCall("set_total", [total |-> tot], set_total(_progress, _task_id, tot))

TrackerNext ==
    \/ TrackerEnter
    \/ TrackerExit
    \/ TrackerUpdate
    \/ TrackerAdvance
    \/ TrackerSetTotal

SpecTracker == TrackerInit /\ [][TrackerNext]_vars

(***************************************************************************)
(* Concurrent callers of load_stacks on the one StackManager.  The method  *)
(* takes no lock, so a thread may be suspended between any two of its      *)
(* reads and writes of self._stacks and the file: each of them is a step.  *)
(*   "idle"           not in load_stacks                                   *)
(*   "check"          at  if self._stacks is not None                      *)
(*   "return_cached"  at  return self._stacks, the cached branch           *)
(*   "open"           at  with open(self.stacks_file) ... json.load(f)     *)
(*   "store"          at  self._stacks = <the value json.load returned>    *)
(*   "return_loaded"  at  return self._stacks, after the with block        *)
(***************************************************************************)
\* No thread opens the file once a catalog has been read from it this many
\* times.
MaxReads == 2

\* The files of the concurrent runs: missing, damaged, or one of two catalogs.
ConcurrentFiles ==
    {Absent, InvalidJSON,
     Present(JDict([stacks |-> JList(<<>>)])),
     Present(JDict([stacks |-> JList(<<[id |-> "ml-cpu", name |-> "ML Stack (CPU)",
                                      description |-> "d",
                                      packages |-> <<"numpy">>,
                                      tags |-> <<"cpu">>]>>)]))}

ConcurrentInit ==
    /\ MspIdle
    /\ SpinnerIdle
    /\ FmtIdle
    /\ TrackerIdle
    /\ ThreadsIdle
    /\ TreeIdle
    /\ file \in ConcurrentFiles
    /\ _stacks = None
    /\ call = [op |-> "__init__", arg |-> ""]
    /\ result = Return(None)
    /\ opened = FALSE
    /\ probed = "not_queried"
    /\ first = Unset

ThreadFrame == UNCHANGED <<call, result, opened, probed, msp_vars, sp_vars, fmt_vars, pt_vars, dt_vars>>

\* The thread's call ends with the outcome out.
Finishes(t, out) ==
    /\ th_pc' = [th_pc EXCEPT ![t] = "idle"]
    /\ th_result' = [th_result EXCEPT ![t] = out]
    /\ first' = IF first = Unset /\ out.kind = "return" THEN out.value ELSE first

\* A thread calls load_stacks.
ThreadCalls(t) ==
    /\ th_pc[t] = "idle"
    /\ th_pc' = [th_pc EXCEPT ![t] = "check"]
    /\ th_result' = [th_result EXCEPT ![t] = Unset]
    /\ th_loaded' = [th_loaded EXCEPT ![t] = Unset]
    /\ th_late' = [th_late EXCEPT ![t] = (first # Unset)]
    /\ UNCHANGED <<file, _stacks, first, reads>>
    /\ ThreadFrame

\* if self._stacks is not None
ThreadChecks(t) ==
    /\ th_pc[t] = "check"
    /\ th_pc' = [th_pc EXCEPT ![t] = IF _stacks # None THEN "return_cached" ELSE "open"]
    /\ UNCHANGED <<file, _stacks, first, th_loaded, th_result, th_late, reads>>
    /\ ThreadFrame

\* return self._stacks, the cached branch
ThreadReturnsCached(t) ==
    /\ th_pc[t] = "return_cached"
    /\ Finishes(t, Return(_stacks))
    /\ UNCHANGED <<file, _stacks, th_loaded, th_late, reads>>
    /\ ThreadFrame

\* open(self.stacks_file) and json.load(f), with the two except clauses
ThreadOpens(t) ==
    /\ th_pc[t] = "open"
    /\ reads < MaxReads
    /\ LET parsed == json_load(file)
       IN  CASE parsed.kind = "return" ->
                  /\ th_pc' = [th_pc EXCEPT ![t] = "store"]
                  /\ th_loaded' = [th_loaded EXCEPT ![t] = parsed.value]
                  /\ reads' = reads + 1
                  /\ UNCHANGED <<th_result, first>>
             [] parsed.kind = "raise" /\ parsed.exc = "FileNotFoundError" ->
                  /\ Finishes(t, Raise("FileNotFoundError"))
                  /\ UNCHANGED <<th_loaded, reads>>
             [] parsed.kind = "raise" /\ parsed.exc = "JSONDecodeError" ->
                  /\ Finishes(t, Raise("ValueError"))
                  /\ UNCHANGED <<th_loaded, reads>>
    /\ UNCHANGED <<file, _stacks, th_late>>
    /\ ThreadFrame

\* self._stacks = json.load(f)
ThreadStores(t) ==
    /\ th_pc[t] = "store"
    /\ _stacks' = th_loaded[t]
    /\ th_pc' = [th_pc EXCEPT ![t] = "return_loaded"]
    /\ UNCHANGED <<file, first, th_loaded, th_result, th_late, reads>>
    /\ ThreadFrame

\* return self._stacks, after the with block
ThreadReturnsLoaded(t) ==
    /\ th_pc[t] = "return_loaded"
    /\ Finishes(t, Return(_stacks))
    /\ UNCHANGED <<file, _stacks, th_loaded, th_late, reads>>
    /\ ThreadFrame

\* Something outside the manager replaces, deletes or damages the file.
FileChanges ==
    /\ file' \in ConcurrentFiles \ {file}
    /\ UNCHANGED <<_stacks, first, th_vars>>
    /\ ThreadFrame

ConcurrentNext ==
    \/ \E t \in Threads : ThreadCalls(t)
    \/ \E t \in Threads : ThreadChecks(t)
    \/ \E t \in Threads : ThreadReturnsCached(t)
    \/ \E t \in Threads : ThreadOpens(t)
    \/ \E t \in Threads : ThreadStores(t)
    \/ \E t \in Threads : ThreadReturnsLoaded(t)
    \/ FileChanges

SpecConcurrent == ConcurrentInit /\ [][ConcurrentNext]_vars

(***************************************************************************)
(* format_dependency_tree.  The Tree is the set of its nodes; a node has   *)
(* its path from the root (the root's is <<>>, its i-th child's <<i>>, and *)
(* so on), the package it names, and its kind: "root", "dep" for a         *)
(* f"[cyan]{dep}[/cyan]" branch, "circular" for a "(circular)" leaf.  The  *)
(* recursion of add_deps is a stack of calls, each at "enter" (before the  *)
(* visited test) or at "loop" (before the i-th dependency).                *)
(***************************************************************************)
\* The most dependencies a mapping lists, over all its packages.
MaxEdges == 4

PackageNames == <<"a", "b", "c">>
Packages == {PackageNames[i] : i \in 1..Len(PackageNames)}

\* The lists of the first i packages, with at most budget entries in all.
RECURSIVE DepLists(_, _)
DepLists(i, budget) ==
    IF i = 0 THEN {<<>>}
    ELSE UNION {{Append(m, l) : m \in DepLists(i - 1, budget - Len(l))} :
                    l \in SeqsUpTo(Packages, budget)}

Mappings ==
    {[p \in Packages |-> m[CHOOSE i \in 1..Len(PackageNames) : PackageNames[i] = p]] :
        m \in DepLists(Len(PackageNames), MaxEdges)}

\* The root packages: one the mapping has, one it has not.
Roots == {"a", "z"}

\* dependencies.get(pkg, [])
deps_of(d, pkg) == IF pkg \in DOMAIN d THEN d[pkg] ELSE <<>>

\* A faulty test: no package counts as visited.
in_visited_never(pkg, visited) == FALSE

\* if pkg in visited
in_visited(pkg, visited) == pkg \in visited

\* parent_tree.add(...): the path of the node added under the node at parent
added_under(t, parent) ==
    Append(parent, Cardinality({n \in t : /\ Len(n.path) = Len(parent) + 1
                                          /\ SubSeq(n.path, 1, Len(parent)) = parent}) + 1)

Top == dt_stack[Len(dt_stack)]
Pop == SubSeq(dt_stack, 1, Len(dt_stack) - 1)

\* tree = Tree(...), and add_deps(tree, package, set()) is called
TreeInit ==
    /\ StackIdle
    /\ MspIdle
    /\ SpinnerIdle
    /\ FmtIdle
    /\ TrackerIdle
    /\ ThreadsIdle
    /\ package \in Roots
    /\ dependencies \in Mappings
    /\ tree = {[path |-> <<>>, pkg |-> package, kind |-> "root"]}
    /\ dt_stack = <<[parent_tree |-> <<>>, pkg |-> package, visited |-> {},
                     pc |-> "enter", i |-> 1]>>

TreeFrame ==
    UNCHANGED <<package, dependencies, stack_vars, msp_vars, sp_vars, fmt_vars, pt_vars, th_vars>>

\* if pkg in visited: parent_tree.add(f"[dim]{pkg} (circular)[/dim]"); return
AddDepsCircular ==
    /\ dt_stack # <<>>
    /\ Top.pc = "enter"
    /\ in_visited(Top.pkg, Top.visited)
    /\ tree' = tree \cup {[path |-> added_under(tree, Top.parent_tree),
                           pkg |-> Top.pkg, kind |-> "circular"]}
    /\ dt_stack' = Pop
    /\ TreeFrame

\* visited.add(pkg); deps = dependencies.get(pkg, [])
AddDepsVisits ==
    /\ dt_stack # <<>>
    /\ Top.pc = "enter"
    /\ ~in_visited(Top.pkg, Top.visited)
    /\ dt_stack' = [dt_stack EXCEPT ![Len(dt_stack)] =
                       [@ EXCEPT !.visited = @ \cup {Top.pkg}, !.pc = "loop"]]
    /\ UNCHANGED tree
    /\ TreeFrame

\* branch = parent_tree.add(f"[cyan]{dep}[/cyan]"); add_deps(branch, dep, visited.copy())
AddDepsBranches ==
    /\ dt_stack # <<>>
    /\ Top.pc = "loop"
    /\ Top.i <= Len(deps_of(dependencies, Top.pkg))
    /\ LET dep == deps_of(dependencies, Top.pkg)[Top.i]
           branch == added_under(tree, Top.parent_tree)
       IN  /\ tree' = tree \cup {[path |-> branch, pkg |-> dep, kind |-> "dep"]}
           /\ dt_stack' = Append([dt_stack EXCEPT ![Len(dt_stack)].i = @ + 1],
                                 [parent_tree |-> branch, pkg |-> dep,
                                  visited |-> Top.visited, pc |-> "enter", i |-> 1])
    /\ TreeFrame

\* the for loop is over: add_deps returns
AddDepsReturns ==
    /\ dt_stack # <<>>
    /\ Top.pc = "loop"
    /\ Top.i > Len(deps_of(dependencies, Top.pkg))
    /\ dt_stack' = Pop
    /\ UNCHANGED tree
    /\ TreeFrame

TreeNext ==
    \/ AddDepsCircular
    \/ AddDepsVisits
    \/ AddDepsBranches
    \/ AddDepsReturns

\* The function runs to its return unless it has nothing left to do.
SpecTree == TreeInit /\ [][TreeNext]_vars /\ WF_vars(TreeNext)

(***************************************************************************)
(* What the claims speak of.                                               *)
(***************************************************************************)
\* A document of the catalog's shape: an object whose "stacks", if it has
\* one, is a sequence.
IsCatalogDocument(doc) ==
    /\ doc.t = "dict"
    /\ "stacks" \in DOMAIN doc.v => doc.v.stacks.t = "list"

\* The stacks such a document defines, in document order.
StacksOf(doc) == IF "stacks" \in DOMAIN doc.v THEN doc.v.stacks.v ELSE <<>>

\* A catalog every stack of which has its id.
IsCatalog(doc) ==
    /\ IsCatalogDocument(doc)
    /\ \A i \in 1..Len(StacksOf(doc)) : "id" \in DOMAIN StacksOf(doc)[i]

\* The positions of the stacks with this id.
Hits(doc, id) == {i \in 1..Len(StacksOf(doc)) : StacksOf(doc)[i].id = id}

\* The methods that load the catalog on the way.
LoadingOps == {"list_stacks", "find_stack", "get_stack_packages", "describe_stack"}

(***************************************************************************)
(* The claims.                                                             *)
(***************************************************************************)
\* C1: suggest_stack("ml") returns "ml" when the probe reports a GPU and
\* "ml-cpu" when it reports none or raises; the call never fails.
C1_SuggestMlNeverFails ==
    (call.op = "suggest_stack" /\ call.arg = "ml") =>
        result = Return(JStr(IF probed = "gpu" THEN "ml" ELSE "ml-cpu"))

\* C2: once a load_stacks call has succeeded, every later load_stacks call
\* returns what the first one returned and does not open the file.
C2_LoadedOnce ==
    [][(first # Unset /\ call'.op = "load_stacks") =>
            (result' = Return(first) /\ ~opened')]_vars

\* C3: with nothing cached and the file absent, load_stacks raises
\* FileNotFoundError and leaves the cache empty; and with an empty cache a
\* load_stacks call opens the file.
C3_AbsentFileLoadFails ==
    [][(call'.op = "load_stacks" /\ _stacks = None) =>
            /\ opened'
            /\ file = Absent =>
                    (result' = Raise("FileNotFoundError") /\ _stacks' = None)]_vars

C3_Witness ==
    /\ call.op = "load_stacks"
    /\ file = Absent
    /\ result = Raise("FileNotFoundError")
    /\ opened
    /\ _stacks = None

\* C4: a load_stacks call that reads a file which is present but is not a
\* document of the catalog's shape raises ValueError and caches nothing.
C4_CorruptFileRejected ==
    (/\ call.op = "load_stacks"
     /\ opened
     /\ file # Absent
     /\ file = InvalidJSON \/ ~IsCatalogDocument(file.doc)) =>
        (result = Raise("ValueError") /\ _stacks = None)

\* C5: whatever document load_stacks has cached, list_stacks returns a
\* sequence and raises nothing.
C5_ListNeverFailsOnceLoaded ==
    (call.op = "list_stacks" /\ _stacks # None) =>
        (result.kind = "return" /\ result.value.t = "list")

\* C6: for a document of the catalog's shape, cached before or read by this
\* very call, list_stacks returns the document's stacks in document order
\* (none when it has no "stacks"), and loads the document if none is cached.
C6_ListReturnsDocumentStacks ==
    [][(call'.op = "list_stacks") =>
            /\ (_stacks # None /\ IsCatalogDocument(_stacks)) =>
                    /\ result' = Return(JList(StacksOf(_stacks)))
                    /\ _stacks' = _stacks
                    /\ ~opened'
            /\ (_stacks = None /\ file.t = "json" /\ IsCatalogDocument(file.doc)) =>
                    /\ result' = Return(JList(StacksOf(file.doc)))
                    /\ _stacks' = file.doc
                    /\ opened']_vars

C6_Witness ==
    /\ call.op = "list_stacks"
    /\ opened
    /\ IsCatalogDocument(_stacks)
    /\ Len(StacksOf(_stacks)) = MaxStacks
    /\ StacksOf(_stacks)[1] # StacksOf(_stacks)[MaxStacks]
    /\ result = Return(JList(StacksOf(_stacks)))

\* C7: on a catalog, find_stack returns a stack of the catalog whose id is
\* exactly the one asked for, and None when no stack has it; "" and "ML"
\* find nothing in a catalog that holds neither.
C7_FindExactId ==
    (call.op = "find_stack" /\ IsCatalog(_stacks)) =>
        IF Hits(_stacks, call.arg) = {}
        THEN result = Return(None)
        ELSE /\ result.kind = "return"
             /\ result.value.t = "dict"
             /\ \E i \in Hits(_stacks, call.arg) :
                    result.value.v = StacksOf(_stacks)[i]

C7_Witness ==
    /\ call.op = "find_stack"
    /\ call.arg = "ML"
    /\ IsCatalog(_stacks)
    /\ Hits(_stacks, "ml") # {}
    /\ result = Return(None)

\* C8: on a catalog, get_stack_packages of an id that no stack has returns
\* the empty list and raises nothing.
C8_PackagesOfUnknownId ==
    (/\ call.op = "get_stack_packages"
     /\ IsCatalog(_stacks)
     /\ Hits(_stacks, call.arg) = {}) =>
        result = Return(JList(<<>>))

C8_Witness ==
    /\ call.op = "get_stack_packages"
    /\ call.arg = "nonexistent"
    /\ IsCatalog(_stacks)
    /\ StacksOf(_stacks) # <<>>
    /\ result = Return(JList(<<>>))

\* C9: when list_stacks, find_stack, get_stack_packages or describe_stack is
\* called with nothing cached and the file absent or not JSON, the call
\* raises the load's error (FileNotFoundError, ValueError) and caches nothing.
C9_LoadFailurePropagates ==
    [][(/\ call'.op \in LoadingOps
        /\ _stacks = None
        /\ file \in {Absent, InvalidJSON}) =>
            /\ result' = Raise(IF file = Absent THEN "FileNotFoundError"
                               ELSE "ValueError")
            /\ _stacks' = None]_vars

C9_Witness ==
    /\ call.op = "describe_stack"
    /\ file = InvalidJSON
    /\ result = Raise("ValueError")
    /\ _stacks = None

\* C10: for a base other than "ml", suggest_stack returns the base, does not
\* call the probe, does not open the file or touch the cache, and gives the
\* same again when applied to what it returned.
C10_OtherStacksUnchanged ==
    [][(call'.op = "suggest_stack" /\ call'.arg # "ml") =>
            /\ result' = Return(JStr(call'.arg))
            /\ probed' = "not_queried"
            /\ ~opened'
            /\ _stacks' = _stacks
            /\ file' = file
            /\ \A p \in ProbeOutcomes :
                    suggest_stack(result'.value.v, p).res = result']_vars

C10_Witness ==
    /\ call.op = "suggest_stack"
    /\ call.arg = "ML"
    /\ result = Return(JStr("ML"))
    /\ probed = "not_queried"
    /\ ~opened

\* C11: no call of the manager writes the file, and once a catalog is
\* cached no call changes it, whatever the file has become.
C11_CatalogReadOnly ==
    [][/\ call'.op # "change_file" => file' = file
       /\ _stacks # None => _stacks' = _stacks]_vars

C11_Witness ==
    /\ call.op = "get_stack_packages"
    /\ IsCatalog(_stacks)
    /\ file # Present(_stacks)
    /\ result.kind = "return"
    /\ result.value.v # <<>>

\* The first stack with this id, and the packages of a stack.
FirstHit(doc, id) ==
    StacksOf(doc)[CHOOSE i \in Hits(doc, id) : \A j \in Hits(doc, id) : i <= j]

PackagesOf(stack) == IF "packages" \in DOMAIN stack THEN stack.packages ELSE <<>>

IsPackageLine(l) == l.line = "package"

\* C12: the text describe_stack returns for a found stack has one numbered
\* entry per package, numbered 1, 2, ... in the order of the stack's packages.
C12_DescribeNumbersPackages ==
    (/\ call.op = "describe_stack"
     /\ IsCatalog(_stacks)
     /\ Hits(_stacks, call.arg) # {}
     /\ result.kind = "return") =>
        LET packages == PackagesOf(FirstHit(_stacks, call.arg))
            entries == SelectSeq(result.value.v, IsPackageLine)
        IN  /\ result.value.v[1].line = "stack"
            /\ Len(entries) = Len(packages)
            /\ \A i \in 1..Len(packages) :
                    entries[i].idx = i /\ entries[i].pkg = packages[i]

C12_Witness ==
    /\ call = [op |-> "describe_stack", arg |-> "webdev"]
    /\ result.kind = "return"
    /\ SelectSeq(result.value.v, IsPackageLine)
         = <<[line |-> "package", idx |-> 1, pkg |-> "nginx"],
             [line |-> "package", idx |-> 2, pkg |-> "nodejs"]>>

\* The status each step method sets.
TargetStatus(op) ==
    CASE op = "start_step" -> "running"
      [] op = "complete_step" -> "completed"
      [] op = "fail_step" -> "failed"
      [] op = "skip_step" -> "skipped"

StepOps == {"start_step", "complete_step", "fail_step", "skip_step"}

\* C13: start_step, complete_step, fail_step and skip_step of a step of the
\* list set its status to running, completed, failed and skipped, whatever
\* it was, and leave every other step's status as it was, with or without a
\* live display.
C13_StepMethodsSetStatus ==
    [][(ms_call'.op \in StepOps /\ ms_call'.step \in DOMAIN step_status) =>
            step_status' = [step_status EXCEPT
                               ![ms_call'.step] = TargetStatus(ms_call'.op)]]_vars

C13_Witness ==
    /\ _live # None
    /\ _live.started
    /\ ms_call.op = "fail_step"
    /\ ms_call.step \in DOMAIN step_status
    /\ step_status[ms_call.step] = "failed"
    /\ \E s \in DOMAIN step_status : step_status[s] = "completed"

\* C14: the keys of step_status are always the constructor's steps, every
\* status is one of the five, all are pending after construction, and a
\* call that names a step not in the list changes nothing.
C14_StatusMapShape ==
    /\ [](/\ DOMAIN step_status = {steps[i] : i \in 1..Len(steps)}
          /\ \A s \in DOMAIN step_status : step_status[s] \in Statuses
          /\ ms_call.op = "__init__" =>
                \A s \in DOMAIN step_status : step_status[s] = "pending")
    /\ [][(ms_call'.op \in StepOps /\ ms_call'.step \notin DOMAIN step_status) =>
            UNCHANGED <<steps, step_status, _live, ms_printed>>]_vars

C14_Witness ==
    /\ ms_call = [op |-> "start_step", step |-> "Cleanup"]
    /\ Len(steps) = MaxSteps
    /\ \E s \in DOMAIN step_status : step_status[s] = "skipped"
    /\ \E s \in DOMAIN step_status : step_status[s] = "pending"

\* The lines the last with spinner_context block printed.
SpinnerPrinted == SubSeq(sp_console, sp_mark + 1, Len(sp_console))

SuccessLine(args) ==
    [icon |-> "success", style |-> "green", text |-> args.success_message.v]

ErrorLine(args) ==
    [icon |-> "error", style |-> "red", text |-> args.error_message.v]

ContainsWord(word, action) == Contains(word, lower(action))

\* C16: cx_package_table colours each row by its action without regard to
\* case: green if it contains "install", red if it contains "remove" or
\* "uninstall", yellow if it contains "update" or "upgrade", unstyled
\* otherwise.
C16_ActionColours ==
    (fn = "cx_package_table" /\ fn_out # None) =>
        /\ Len(fn_out.rows) = Len(fn_in)
        /\ \A i \in 1..Len(fn_in) :
            LET action == fn_in[i].action
                style == fn_out.rows[i].action.style
            IN  /\ fn_out.rows[i].action.text = action
                /\ ContainsWord(w_install, action) => style = "green"
                /\ (ContainsWord(w_remove, action) \/ ContainsWord(w_uninstall, action))
                      => style = "red"
                /\ (ContainsWord(w_update, action) \/ ContainsWord(w_upgrade, action))
                      => style = "yellow"
                /\ (\A w \in {w_install, w_remove, w_uninstall, w_update, w_upgrade} :
                        ~ContainsWord(w, action))
                      => style = "none"

\* The one task of the tracker's Progress.
TrackerTask(p) == p.tasks[1]

TrackerOps == {"update", "advance", "set_total"}

\* What a call on a tracker inside its context does to the task before.
ActsOnTask(c, before, after) ==
    /\ c.op = "update" =>
          /\ after.completed = before.completed + c.arg.advance
          /\ after.total = before.total
          /\ is_truthy(c.arg.description) => after.description = c.arg.description.v
    /\ c.op = "advance" =>
          /\ after.completed = before.completed + c.arg.amount
          /\ after.total = before.total
          /\ after.description = before.description
    /\ c.op = "set_total" =>
          /\ after.total = JInt(c.arg.total)
          /\ after.completed = before.completed
          /\ after.description = before.description

\* C17: _progress and _task_id are both None from construction until
\* __enter__ and both non-None from __enter__ onwards; inside the context
\* update, advance and set_total return without raising and act on the one
\* task of the Progress, which _task_id names.
C17_TrackerPaired ==
    /\ _progress = None /\ _task_id = None
    /\ [](_progress = None <=> _task_id = None)
    /\ [][/\ pt_call'.op = "__enter__" => _progress' # None /\ _task_id' # None
          /\ pt_call'.op # "__enter__" =>
                /\ _progress' = None <=> _progress = None
                /\ _task_id' = _task_id
          /\ (pt_call'.op \in TrackerOps /\ _progress # None /\ _progress.started) =>
                /\ pt_result' = Return(None)
                /\ DOMAIN _progress'.tasks = {1}
                /\ _task_id' = JInt(0)
                /\ _progress'.started
                /\ ActsOnTask(pt_call', TrackerTask(_progress), TrackerTask(_progress'))
         ]_vars

C17_Witness ==
    /\ pt_call.op = "advance"
    /\ _progress # None
    /\ _progress.started
    /\ _task_id = JInt(0)
    /\ TrackerTask(_progress).completed = MaxCompleted
    /\ TrackerTask(_progress).description = "Installing numpy"
    /\ TrackerTask(_progress).total = JInt(3)

\* C18: for a whole number s >= 0 of seconds format_duration returns
\* "<s>.0s" when s < 60, "<s div 60>m <s mod 60>s" when 60 <= s < 3600 and
\* "<s div 3600>h <(s mod 3600) div 60>m" when s >= 3600; the minutes and
\* the seconds it shows are in 0..59.
C18_DurationForms ==
    (fn = "format_duration" /\ fn_out # None /\ fn_in % 10 = 0) =>
        LET s == fn_in \div 10
        IN  /\ s < 60 => fn_out = [form |-> "{}.{}s", args |-> <<s, 0>>]
            /\ (60 <= s /\ s < 3600) =>
                  /\ fn_out = [form |-> "{}m {}s", args |-> <<s \div 60, s % 60>>]
                  /\ fn_out.args[1] \in 0..59
                  /\ fn_out.args[2] \in 0..59
            /\ s >= 3600 =>
                  /\ fn_out = [form |-> "{}h {}m",
                               args |-> <<s \div 3600, (s % 3600) \div 60>>]
                  /\ fn_out.args[2] \in 0..59

C18_Witness ==
    /\ fn = "format_duration"
    /\ fn_in = 900
    /\ fn_out = [form |-> "{}m {}s", args |-> <<1, 30>>]

\* The value of the byte count n is at least 1024^k.
AtLeastPower(n, k) == \E i \in (k + 1)..Len(n) : n[i] # 0

\* The index k (from 0) of the unit the documentation gives n: the smallest
\* with n / 1024^k < 1024, and 5, for PB, when n >= 1024^5.
UnitIndex(n) ==
    IF AtLeastPower(n, Len(Units)) THEN Len(Units)
    ELSE CHOOSE k \in 0..(Len(Units) - 1) :
            /\ ~AtLeastPower(n, k + 1)
            /\ \A j \in 0..(k - 1) : AtLeastPower(n, j + 1)

UnitName(k) == IF k = Len(Units) THEN "PB" ELSE Units[k + 1]

\* n is exactly 1024^k.
IsPower(n, k) == \A i \in 1..Len(n) : n[i] = IF i = k + 1 THEN 1 ELSE 0

\* C19: format_bytes reports a count n >= 0 in the unit of the smallest
\* index k with n / 1024^k < 1024, in PB when n >= 1024^5; a power 1024^k is
\* reported as 1.0 of unit k, 0 as 0.0 B, and the number shown before a
\* unit other than PB is below 1024.
C19_ByteUnits ==
    (fn = "format_bytes" /\ fn_out # None) =>
        /\ fn_out.unit = UnitName(UnitIndex(fn_in))
        /\ \A k \in 0..Len(Units) :
              IsPower(fn_in, k) => fn_out = [number |-> <<1, 0>>, unit |-> UnitName(k)]
        /\ (\A i \in 1..Len(fn_in) : fn_in[i] = 0) =>
              fn_out = [number |-> <<0, 0>>, unit |-> "B"]
        /\ fn_out.unit # "PB" => fn_out.number[1] < 1024

\* C20: with concurrent callers on one StackManager the catalog file is read
\* at most once, whatever the interleaving of the load calls, and every load
\* call that starts after the first successful load has completed returns
\* the catalog that load returned.
C20_InitializedOnce ==
    /\ reads <= 1
    /\ \A t \in Threads :
          (th_late[t] /\ th_result[t] # Unset) => th_result[t] = Return(first)

\* C21: on a catalog, get_stack_packages returns the packages of the stack
\* find_stack returns for the id, in their order; when several stacks share
\* the id both take the first of them in document order; a found stack with
\* no "packages" yields the empty list.
C21_PackagesOfFoundStack ==
    (/\ call.op = "get_stack_packages"
     /\ IsCatalog(_stacks)
     /\ Hits(_stacks, call.arg) # {}) =>
        LET found == find_stack(_stacks, file, call.arg).res
            stack == FirstHit(_stacks, call.arg)
        IN  /\ found = Return(JDict(stack))
            /\ result = Return(JList(IF "packages" \in DOMAIN stack
                                     THEN stack.packages ELSE <<>>))

C21_Witness ==
    /\ call = [op |-> "get_stack_packages", arg |-> "ml"]
    /\ IsCatalog(_stacks)
    /\ Cardinality(Hits(_stacks, "ml")) = 2
    /\ "packages" \in DOMAIN StacksOf(_stacks)[2]
    /\ result = Return(JList(<<>>))

IsTagsLine(l) == l.line = "tags"

IsHardwareLine(l) == l.line = "hardware"

\* C22: on a catalog, describe_stack of an id no stack has returns the
\* message "Stack '<id>' not found" and raises nothing; for a found stack the
\* text gives the hardware as "any" when the stack has no "hardware", and
\* has a tags line exactly when the stack has at least one tag.
C22_DescribeMissAndDefaults ==
    (call.op = "describe_stack" /\ IsCatalog(_stacks)) =>
        IF Hits(_stacks, call.arg) = {}
        THEN result = Return(JStr(<<[line |-> "not found", id |-> call.arg]>>))
        ELSE result.kind = "return" =>
                LET stack == FirstHit(_stacks, call.arg)
                    tagged == "tags" \in DOMAIN stack /\ stack.tags # <<>>
                IN  /\ SelectSeq(result.value.v, IsHardwareLine)
                         = <<[line |-> "hardware",
                              hardware |-> IF "hardware" \in DOMAIN stack
                                           THEN stack.hardware ELSE "any"]>>
                    /\ SelectSeq(result.value.v, IsTagsLine)
                         = IF tagged THEN <<[line |-> "tags", tags |-> stack.tags]>>
                           ELSE <<>>

C22_Witness ==
    /\ call = [op |-> "describe_stack", arg |-> "ml"]
    /\ IsCatalog(_stacks)
    /\ Hits(_stacks, "ml") # {}
    /\ "tags" \in DOMAIN FirstHit(_stacks, "ml")
    /\ FirstHit(_stacks, "ml").tags = <<>>
    /\ result.kind = "return"
    /\ SelectSeq(result.value.v, IsTagsLine) = <<>>
    /\ SelectSeq(result.value.v, IsHardwareLine)
         = <<[line |-> "hardware", hardware |-> "any"]>>

Finished == {"completed", "failed", "skipped"}

\* C23: "pending" is only the status a step starts with: a step method
\* applied to a step of the list never leaves it pending, and no call makes a
\* step pending that was not; no order is enforced otherwise: start_step
\* sets a completed, failed or skipped step to running again.
C23_PendingOnlyInitial ==
    [][/\ \A s \in DOMAIN step_status :
            step_status[s] # "pending" =>
                (s \in DOMAIN step_status' /\ step_status'[s] # "pending")
       /\ (ms_call'.op \in StepOps /\ ms_call'.step \in DOMAIN step_status) =>
            step_status'[ms_call'.step] # "pending"
       /\ (/\ ms_call'.op = "start_step"
           /\ ms_call'.step \in DOMAIN step_status
           /\ step_status[ms_call'.step] \in Finished) =>
            step_status'[ms_call'.step] = "running"]_vars

\* The panel printed at __exit__ shows the step completed, and a start_step
\* after that has set it to running.
C23_Witness ==
    /\ ms_call.op = "start_step"
    /\ ms_call.step \in DOMAIN step_status
    /\ step_status[ms_call.step] = "running"
    /\ _live # None
    /\ ~_live.started
    /\ \E i \in DOMAIN ms_printed :
            ms_printed[i].step = ms_call.step /\ ms_printed[i].icon = "success"

\* The packages a call names: the root, and those the mapping lists or
\* gives dependencies.
Mentioned ==
    {package}
    \cup {p \in DOMAIN dependencies : dependencies[p] # <<>>}
    \cup UNION {{dependencies[p][i] : i \in 1..Len(dependencies[p])} :
                    p \in DOMAIN dependencies}

IsPrefix(p, q) == Len(p) < Len(q) /\ SubSeq(q, 1, Len(p)) = p

AncestorsOf(n) == {m \in tree : IsPrefix(m.path, n.path)}

ChildrenOf(n) ==
    {m \in tree : Len(m.path) = Len(n.path) + 1 /\ IsPrefix(n.path, m.path)}

\* A branch whose package is met again: it is on the path above it already.
MetAgain(n) == n.kind = "dep" /\ \E m \in AncestorsOf(n) : m.pkg = n.pkg

\* The node was expanded: its dependencies were added under it.
Expanded(n) == n.kind \in {"root", "dep"} /\ ~MetAgain(n)

\* The children of an expanded node are its package's dependencies, in order.
HasItsDeps(n) ==
    LET deps == deps_of(dependencies, n.pkg)
    IN  ChildrenOf(n) = {[path |-> Append(n.path, i), pkg |-> deps[i], kind |-> "dep"] :
                            i \in 1..Len(deps)}

TreeShape ==
    /\ \A n \in tree :
        /\ Len(n.path) <= Cardinality(Mentioned) + 1
        /\ n.kind = "circular" => ChildrenOf(n) = {}
        /\ MetAgain(n) =>
              ChildrenOf(n) \subseteq
                 {[path |-> Append(n.path, 1), pkg |-> n.pkg, kind |-> "circular"]}
        /\ Expanded(n) =>
              /\ \A c \in ChildrenOf(n) : c.kind = "dep"
              /\ \A m \in AncestorsOf(n) : Expanded(m) => m.pkg # n.pkg
    /\ dt_stack = <<>> =>
          \A n \in tree :
             /\ MetAgain(n) => Cardinality(ChildrenOf(n)) = 1
             /\ Expanded(n) => HasItsDeps(n)

\* C24: format_dependency_tree returns for every mapping, cyclic or not; on
\* no path of the tree is a package expanded twice; a package met again on
\* its own path gets one "(circular)" leaf and nothing else under it; no
\* node lies deeper than the number of distinct packages plus one.
C24_TreeTerminates ==
    /\ []TreeShape
    /\ <>(dt_stack = <<>>)

\* a -> b -> c -> a: the deepest tree three packages give
C24_Witness ==
    /\ dt_stack = <<>>
    /\ package = "a"
    /\ dependencies = [p \in Packages |->
                          IF p = "a" THEN <<"b">> ELSE IF p = "b" THEN <<"c">> ELSE <<"a">>]
    /\ [path |-> <<1, 1, 1, 1>>, pkg |-> "a", kind |-> "circular"] \in tree
    /\ Cardinality(tree) = 5

\* C25: on a tracker that has not been entered, update, advance, set_total
\* and __exit__ do nothing: they return without raising, make no display and
\* no task, and leave description, total, _progress and _task_id as they were.
C25_NoOpsBeforeEnter ==
    [][(/\ pt_call'.op \in TrackerOps \cup {"__exit__"}
        /\ _progress = None
        /\ _task_id = None) =>
            /\ pt_result' = Return(None)
            /\ _progress' = None
            /\ _task_id' = None
            /\ UNCHANGED <<description, total>>]_vars

C25_Witness ==
    /\ pt_call = [op |-> "set_total", arg |-> [total |-> 3]]
    /\ pt_result = Return(None)
    /\ _progress = None
    /\ _task_id = None
    /\ total = JInt(2)

====
